---- MODULE Spec2Model ----
(***************************************************************************)
(* A model of release-notes-scribe: the tag resolver, the commit range     *)
(* extractor, the diff extractor, the chunking planner and the staged      *)
(* summarization run.                                                      *)
(*                                                                         *)
(* Strings whose content the code never inspects (commit messages, diff    *)
(* lines handed to the planner, prompts, summaries) are represented by     *)
(* their length in characters: the planner only measures and slices them.  *)
(* Literal strings of the source are kept and measured with Len.           *)
(***************************************************************************)
EXTENDS Integers, Sequences, FiniteSets, TLC

VARIABLES
    \* ---- chunkCommits / truncateCommit (index.ts)
    commits,      \* the input commit records, oldest first
    maxChars,     \* the character budget of chunkCommits
    chunks,       \* chunkCommits: const chunks
    current,      \* chunkCommits: let current
    currentSize,  \* chunkCommits: let currentSize
    ci,           \* chunkCommits: position of the for-of loop in commits
    candidate,    \* chunkCommits: let candidate (the record to pack)
    trunc,        \* truncateCommit: its locals message, diffLines, changed, block
    cpc,          \* position in chunkCommits / truncateCommit
    warnings,     \* logger.warning calls, in order
    steps,        \* the reductions and packings done so far, in order
    \* ---- the checked-out repository and the calls of lib.ts on it
    history,      \* the number of commits of the branch; their shas are 1..history
    tagList,      \* the tags, newest first (creatordate): records name, at
    resolved,     \* the last call of resolvePreviousTag: arguments and outcome
    ranged,       \* the last call of getCommitShas: arguments and outcome
    \* ---- buildCommitData (lib.ts)
    gitCommits,   \* what git holds for each sha handed to buildCommitData
    maxDiffLines, \* the cap on the diff lines of a record
    gitFault,     \* the git command that fails in this run, and for which sha
    records,      \* the records produced so far by shas.map
    bi,           \* the position of shas.map
    bpc,          \* "idle", "mapping", "done" or "thrown"
    buildLog,     \* logger.warning calls of buildCommitData
    \* ---- run (index.ts), from the prompt on
    rpc,          \* the position of run
    runTag,       \* const tag
    runPreviousTag, \* const previousTag ("" for none)
    maxStageChars,\* the max_stage_chars input
    githubNotes,  \* the length of the GitHub-generated notes (0: none)
    summaries,    \* const summaries: the batch summaries' lengths
    bindex,       \* let index of the batch loop
    submissions,  \* the calls of generateResponseText, in order
    releaseNotes, \* let releaseNotes (its length)
    published,    \* the bodies createRelease was called with
    failure       \* the error run caught (core.setFailed)

chunkVars == <<commits, maxChars, chunks, current, currentSize, ci, candidate,
               trunc, cpc, warnings, steps>>

repoVars == <<history, tagList, resolved, ranged>>

buildVars == <<gitCommits, maxDiffLines, gitFault, records, bi, bpc, buildLog>>

runVars == <<rpc, runTag, runPreviousTag, maxStageChars, githubNotes, summaries, bindex,
             submissions, releaseNotes, published, failure>>

nonChunkVars == <<repoVars, buildVars, runVars>>

nonRepoVars == <<chunkVars, buildVars, runVars>>

nonBuildVars == <<chunkVars, repoVars, runVars>>

vars == <<chunkVars, repoVars, buildVars, runVars>>

-----------------------------------------------------------------------------
(* Bounds of the model.                                                    *)

MaxCommits == 2

\* The most commits of the modelled branch, and the largest max_commits tried.
MaxHistory == 3
MaxCap == 2

\* The most files changed by one commit, and the largest max_diff_lines tried.
MaxFiles == 2
MaxDiffCap == 3

\* The tag names in use; a name is a tag of the repository once created.
TagNames == {"v1.0.0", "v1.1.0", "v9.9.9"}

\* Message lengths, diff-line sequences (line lengths) and budgets to draw from.
MsgLens == {10, 300, 2000}
DiffLineChoices == {<<>>, <<40>>, <<600, 600>>, <<40, 600, 40>>}
Budgets == {120, 300, 1000, 1200}

\* The max_stage_chars inputs and the lengths of the GitHub notes to draw from.
StageBudgets == {1000, 3300}
NotesLens == {0, 5000}

-----------------------------------------------------------------------------
(* Helpers.                                                                *)

Max(a, b) == IF a >= b THEN a ELSE b

Min(a, b) == IF a <= b THEN a ELSE b

RECURSIVE SumSeq(_)
SumSeq(s) == IF s = <<>> THEN 0 ELSE Head(s) + SumSeq(Tail(s))

RECURSIVE Flatten(_)
Flatten(ss) == IF ss = <<>> THEN <<>> ELSE Head(ss) \o Flatten(Tail(ss))

-----------------------------------------------------------------------------
(* The repository the action runs on: a branch of commits 1..history and   *)
(* annotated tags, each on one commit. It is built before the run and does *)
(* not change once the run queries it.                                     *)

NoCallYet == resolved.status = "none" /\ ranged.status = "none"

TagNamesOf(tags) == {tags[i].name : i \in 1..Len(tags)}

\* git commit
GitCommit ==
    /\ NoCallYet
    /\ history < MaxHistory
    /\ history' = history + 1
    /\ UNCHANGED <<tagList, resolved, ranged>>
    /\ UNCHANGED nonRepoVars

\* git tag -a name commit: the newest tag lists first.
GitTag ==
    /\ NoCallYet
    /\ \E name \in TagNames \ TagNamesOf(tagList), at \in 1..history :
          tagList' = <<[name |-> name, at |-> at]>> \o tagList
    /\ UNCHANGED <<history, resolved, ranged>>
    /\ UNCHANGED nonRepoVars

-----------------------------------------------------------------------------
(* lib.ts: listTags, resolvePreviousTag.                                   *)

\* git for-each-ref --sort=-creatordate --format=%(refname:short) refs/tags
listTags(tags) == [i \in 1..Len(tags) |-> tags[i].name]

\* Array.prototype.indexOf: the first position (from 0) of x, or -1.
IndexOf(seq, x) ==
    IF \E i \in 1..Len(seq) : seq[i] = x
    THEN (CHOOSE i \in 1..Len(seq) : seq[i] = x /\ \A j \in 1..(i - 1) : seq[j] # x) - 1
    ELSE -1

\* seq[i], positions counted from 0
At(seq, i) == seq[i + 1]

Returned(value, logged) == [status |-> "returned", value |-> value, logged |-> logged]

Thrown(error, name) == [status |-> "thrown", error |-> error, name |-> name]

\* git rev-parse -q --verify refs/tags/<override> prints the object when the tag
\* exists and fails otherwise (allowFailure: the empty string).
OverrideExistsBroken(tags, override) == TRUE

OverrideExists(tags, override) == override \in TagNamesOf(tags)

\* resolvePreviousTag, lines 159-164: the tag after position index, or "".
PreviousOfBroken(names, index) ==
    IF index + 1 >= Len(names) - 1
    THEN Returned("", <<"No previous tag found; comparing against the empty tree.">>)
    ELSE Returned(At(names, index + 1), <<>>)

PreviousOf(names, index) ==
    IF index + 1 >= Len(names)
    THEN Returned("", <<"No previous tag found; comparing against the empty tree.">>)
    ELSE Returned(At(names, index + 1), <<>>)

\* resolvePreviousTag, lines 145-164: without an override.
FromTagListBroken(names, currentTag) ==
    LET index == IndexOf(names, currentTag)
    IN  IF index = -1 THEN Returned("", <<>>) ELSE PreviousOf(names, index)

FromTagList(names, currentTag) ==
    IF Len(names) = 0 THEN Thrown("NoTagsFound", "")
    ELSE LET index == IndexOf(names, currentTag)
         IN  IF index = -1 THEN Thrown("TagNotFound", currentTag)
             ELSE PreviousOf(names, index)

resolvePreviousTag(tags, currentTag, override) ==
    IF override # ""
    THEN IF ~OverrideExists(tags, override)
         THEN Thrown("OverrideNotFound", override)
         ELSE Returned(override, <<>>)
    ELSE FromTagList(listTags(tags), currentTag)

\* A call of resolvePreviousTag(currentTag, override, logger).
ResolvePreviousTag ==
    /\ \E currentTag \in TagNames, override \in TagNames \cup {""} :
          resolved' = [currentTag |-> currentTag, override |-> override] @@
                      resolvePreviousTag(tagList, currentTag, override)
    /\ UNCHANGED <<history, tagList, ranged>>
    /\ UNCHANGED nonRepoVars

-----------------------------------------------------------------------------
(* lib.ts: getCommitShas.                                                  *)

TagAt(tags, name) == (CHOOSE i \in 1..Len(tags) : tags[i].name = name)

CommitOf(tags, name) == tags[TagAt(tags, name)].at

\* git log --reverse --pretty=format:%H <range>: the commits reachable from
\* currentTag and not from previousTag, oldest first; the command fails when
\* a name of the range is no ref.
GitLogFails(tags, previousTag, currentTag) ==
    \/ currentTag \notin TagNamesOf(tags)
    \/ previousTag # "" /\ previousTag \notin TagNamesOf(tags)

GitLogRange(tags, previousTag, currentTag) ==
    LET lo == IF previousTag = "" THEN 0 ELSE CommitOf(tags, previousTag)
        hi == CommitOf(tags, currentTag)
    IN  IF hi > lo THEN [i \in 1..(hi - lo) |-> lo + i] ELSE <<>>

\* commits.slice(commits.length - maxCommits)
KeepRecentBroken(list, maxCommits) == SubSeq(list, 1, maxCommits)

KeepRecent(list, maxCommits) == SubSeq(list, Len(list) - maxCommits + 1, Len(list))

getCommitShas(tags, previousTag, currentTag, maxCommits) ==
    IF GitLogFails(tags, previousTag, currentTag)
    THEN Thrown("GitFailed", "log")
    ELSE LET list == GitLogRange(tags, previousTag, currentTag)
         IN  IF Len(list) = 0 THEN Returned(<<>>, <<>>)
             ELSE IF Len(list) > maxCommits
             THEN Returned(KeepRecent(list, maxCommits),
                           <<[kind |-> "truncating", found |-> Len(list),
                              kept |-> maxCommits]>>)
             ELSE Returned(list, <<>>)

\* A call of getCommitShas(previousTag, currentTag, maxCommits, logger).
GetCommitShas ==
    /\ \E previousTag \in TagNames \cup {""}, currentTag \in TagNames,
          maxCommits \in 1..MaxCap :
          ranged' = [previousTag |-> previousTag, currentTag |-> currentTag,
                     maxCommits |-> maxCommits] @@
                    getCommitShas(tagList, previousTag, currentTag, maxCommits)
    /\ UNCHANGED <<history, tagList, resolved>>
    /\ UNCHANGED nonRepoVars

-----------------------------------------------------------------------------
(* What git reports for a commit: its message and its changed files, in    *)
(* path order. A file has a name-status letter, is binary or text, and a   *)
(* text file has the content lines of its zero-context diff. A content     *)
(* line is its sign, its length (sign included) and whether it begins with *)
(* the sign three times (a removed "-- x" reads "--- x").                  *)

ContentLine(sign, len, triple) ==
    [kind |-> "content", path |-> "", sign |-> sign, triple |-> triple, len |-> len]

OtherLine(kind, path, len) ==
    [kind |-> kind, path |-> path, sign |-> "", triple |-> FALSE, len |-> len]

FileMenu ==
    << [path |-> "README.md", ext |-> ".md", status |-> "M", binary |-> FALSE,
        lines |-> <<ContentLine("+", 20, FALSE)>>],
       [path |-> "assets/logo.png", ext |-> ".png", status |-> "A", binary |-> TRUE,
        lines |-> <<>>],
       [path |-> "db/schema.sql", ext |-> ".sql", status |-> "M", binary |-> FALSE,
        lines |-> <<ContentLine("-", 14, TRUE)>>],
       [path |-> "src/app.ts", ext |-> ".ts", status |-> "M", binary |-> FALSE,
        lines |-> <<ContentLine("-", 40, FALSE), ContentLine("+", 500, FALSE)>>],
       [path |-> "src/util.ts", ext |-> ".ts", status |-> "A", binary |-> FALSE,
        lines |-> <<ContentLine("+", 300, FALSE), ContentLine("+", 301, FALSE)>>],
       [path |-> "tools/run.sh", ext |-> ".sh", status |-> "R100", binary |-> FALSE,
        lines |-> <<>>] >>

\* The elements of seq at the positions in S, in order.
RECURSIVE Pick(_, _, _)
Pick(seq, S, i) ==
    IF i > Len(seq) THEN <<>>
    ELSE (IF i \in S THEN <<seq[i]>> ELSE <<>>) \o Pick(seq, S, i + 1)

FileSets == {S \in SUBSET (1..Len(FileMenu)) : Cardinality(S) <= MaxFiles}

\* The lengths of the commit messages git may hold (0: an empty message).
MessageLens == {0, 20}

GitCommitChoices ==
    {[message |-> m, files |-> Pick(FileMenu, S, 1)] : m \in MessageLens, S \in FileSets}

\* DEFAULT_SOURCE_EXTENSIONS, the part the menu's paths meet.
DEFAULT_SOURCE_EXTENSIONS == {".ts", ".tsx", ".js", ".py", ".go", ".sh", ".sql"}

\* git show --no-color --unified=0 --pretty=format: <sha>, line by line.
FileDiff(file) ==
    <<OtherLine("diffgit", file.path, 0), OtherLine("meta", "", 0)>> \o
    (IF file.binary THEN <<OtherLine("binary", "", Len("Binary files ") + 30)>>
     ELSE IF file.lines = <<>> THEN <<>>
     ELSE <<OtherLine("oldhdr", "", 0), OtherLine("newhdr", "", 0),
            OtherLine("hunk", "", 0)>> \o file.lines)

RECURSIVE GitShowDiff(_)
GitShowDiff(files) ==
    IF files = <<>> THEN <<>> ELSE FileDiff(Head(files)) \o GitShowDiff(Tail(files))

-----------------------------------------------------------------------------
(* lib.ts: getFileStats, summaries, fallbackFileChanges, extractDiffLines, *)
(* buildCommitData.                                                        *)

MAX_LINE_LENGTH == 300

\* A line kept in a record: `${path}: ${text}` (text alone without a path).
\* len is the length of the text, ell whether the text ends with the "..." a
\* truncation appends, of the length of the diff line it was cut from.
Entry(path, kind, text, len, ell, of) ==
    [path |-> path, kind |-> kind, text |-> text, len |-> len, ell |-> ell, of |-> of]

EntryLen(e) == IF e.path # "" THEN Len(e.path) + Len(": ") + e.len ELSE e.len

\* isSourcePath
isSourcePath(file, extensions) == file.ext \in extensions

\* getFileStats: one FileStat per file of git show --numstat.
getFileStats(files, extensions) ==
    [i \in 1..Len(files) |->
        [path |-> files[i].path,
         isBinary |-> files[i].binary,
         isSource |-> ~files[i].binary /\ isSourcePath(files[i], extensions)]]

summarizeNonSource(stat) ==
    LET text == IF stat.isBinary THEN "binary change (diff omitted)"
                ELSE "non-source change (diff omitted)"
    IN  Entry(stat.path, "summary", text, Len(text), FALSE, 0)

summarizeSource(path) ==
    Entry(path, "summary", "source change (diff omitted)",
          Len("source change (diff omitted)"), FALSE, 0)

formatFileStatus(status) ==
    CASE status = "R100" -> "renamed"
      [] status = "C100" -> "copied"
      [] status = "A" -> "added"
      [] status = "M" -> "modified"
      [] status = "D" -> "deleted"
      [] OTHER -> status

\* seq.slice(0, n)
SliceBroken(seq, n) == seq

Slice(seq, n) == SubSeq(seq, 1, Min(Len(seq), n))

\* fallbackFileChanges: the name-status lines of every file, at most maxLines.
fallbackFileChanges(files, maxLines) ==
    Slice([i \in 1..Len(files) |->
              Entry(files[i].path, "status", formatFileStatus(files[i].status),
                    Len(formatFileStatus(files[i].status)), FALSE, 0)],
          maxLines)

\* extractDiffLines, lines 321-324: the line cut to MAX_LINE_LENGTH.
TrimmedLenBroken(len) ==
    IF len > MAX_LINE_LENGTH THEN MAX_LINE_LENGTH + Len("...") ELSE len

TrimmedLen(len) ==
    IF len > MAX_LINE_LENGTH THEN (MAX_LINE_LENGTH - 3) + Len("...") ELSE len

\* extractDiffLines, lines 292-332: the loop over the diff's lines from
\* position i, with the results, currentFile and includeFile so far.
RECURSIVE DiffLoop(_, _, _, _, _, _, _)
DiffLoop(diff, i, results, currentFile, includeFile, maxLines, allowedPaths) ==
    IF i > Len(diff) THEN results
    ELSE LET line == diff[i]
         IN  IF line.kind = "diffgit"
             THEN DiffLoop(diff, i + 1, results, line.path,
                           line.path \in allowedPaths, maxLines, allowedPaths)
             ELSE IF ~includeFile
             THEN DiffLoop(diff, i + 1, results, currentFile, includeFile,
                           maxLines, allowedPaths)
             ELSE IF line.kind \in {"oldhdr", "newhdr", "hunk", "nonewline"}
             THEN DiffLoop(diff, i + 1, results, currentFile, includeFile,
                           maxLines, allowedPaths)
             ELSE IF line.kind = "content" /\ line.triple
             THEN DiffLoop(diff, i + 1, results, currentFile, includeFile,
                           maxLines, allowedPaths)
             ELSE LET pushed ==
                          IF line.kind = "binary"
                          THEN Append(results, Entry(currentFile, "binaryLine", "",
                                                     line.len, FALSE, line.len))
                          ELSE IF line.kind = "content"
                          THEN Append(results,
                                      Entry(currentFile, "diff", line.sign,
                                            TrimmedLen(line.len),
                                            line.len > MAX_LINE_LENGTH, line.len))
                          ELSE results
                  IN  IF Len(pushed) >= maxLines THEN pushed
                      ELSE DiffLoop(diff, i + 1, pushed, currentFile, includeFile,
                                    maxLines, allowedPaths)

\* extractDiffLines: the loop, then the name-status fallback when it kept
\* nothing; git show --name-status may fail, which throws.
extractDiffLinesBroken(diff, maxLines, files, allowedPaths, nameStatusFails) ==
    Returned(DiffLoop(diff, 1, <<>>, "", TRUE, maxLines, allowedPaths), <<>>)

extractDiffLines(diff, maxLines, files, allowedPaths, nameStatusFails) ==
    LET results == DiffLoop(diff, 1, <<>>, "", TRUE, maxLines, allowedPaths)
    IN  IF Len(results) = 0
        THEN IF nameStatusFails THEN Thrown("GitFailed", "name-status")
             ELSE Returned(fallbackFileChanges(files, maxLines), <<>>)
        ELSE Returned(results, <<>>)

IsSourceStat(stat) == stat.isSource

IsNonSourceStat(stat) == ~stat.isSource

\* buildCommitData, lines 364-383: the diff lines of the commit's source
\* files; a failure inside the try is caught, logged and replaced by the
\* source paths' summaries.
SourceDiffLines(sha, commit, maxLines, sourcePaths, fault) ==
    LET pathSet == {sourcePaths[i] : i \in 1..Len(sourcePaths)}
        summary == Returned([i \in 1..Len(Slice(sourcePaths, maxLines)) |->
                                summarizeSource(sourcePaths[i])],
                            <<[kind |-> "diff-failed", sha |-> sha]>>)
    IN  IF Len(sourcePaths) = 0 THEN Returned(<<>>, <<>>)
        ELSE IF fault = "show" THEN summary
        ELSE LET got == extractDiffLines(GitShowDiff(commit.files), maxLines,
                                         commit.files, pathSet, fault = "name-status")
             IN  IF got.status = "thrown" THEN summary ELSE got

\* buildCommitData, the callback of shas.map for one sha: the record, or the
\* error of a git command outside the try.
commitRecord(sha, commit, maxLines, extensions, fault) ==
    IF fault = "log" THEN Thrown("GitFailed", "log")
    ELSE IF fault = "numstat" THEN Thrown("GitFailed", "numstat")
    ELSE LET fileStats == getFileStats(commit.files, extensions)
             sourceStats == SelectSeq(fileStats, IsSourceStat)
             sourcePaths == [i \in 1..Len(sourceStats) |-> sourceStats[i].path]
             nonSource == SelectSeq(fileStats, IsNonSourceStat)
             nonSourceEntries == [i \in 1..Len(nonSource) |->
                                     summarizeNonSource(nonSource[i])]
             got == SourceDiffLines(sha, commit, maxLines, sourcePaths, fault)
         IN  Returned([sha |-> sha,
                       message |-> IF commit.message = 0
                                   THEN Len("(no commit message)")
                                   ELSE commit.message,
                       diffLines |-> Slice(got.value \o nonSourceEntries, maxLines)],
                      got.logged)

\* The git command that fails for the sha at position i, if any.
FaultAt(i) == IF gitFault.at = i THEN gitFault.what ELSE "none"

\* shas.map: the callback runs for the next sha.
BuildCommitData ==
    /\ bpc = "mapping"
    /\ bi <= Len(gitCommits)
    /\ LET out == commitRecord(bi, gitCommits[bi], maxDiffLines,
                               DEFAULT_SOURCE_EXTENSIONS, FaultAt(bi))
       IN  IF out.status = "thrown"
           THEN /\ bpc' = "thrown"
                /\ UNCHANGED <<records, bi, buildLog>>
           ELSE /\ records' = Append(records, out.value)
                /\ buildLog' = buildLog \o out.logged
                /\ bi' = bi + 1
                /\ bpc' = IF bi = Len(gitCommits) THEN "done" ELSE "mapping"
    /\ UNCHANGED <<gitCommits, maxDiffLines, gitFault>>
    /\ UNCHANGED nonBuildVars

GitFaults ==
    {[at |-> 0, what |-> "none"]} \cup
    {[at |-> i, what |-> w] : i \in 1..2, w \in {"log", "numstat", "show", "name-status"}}

BuildIdle ==
    /\ gitCommits = <<>>
    /\ maxDiffLines = 0
    /\ gitFault = [at |-> 0, what |-> "none"]
    /\ records = <<>>
    /\ bi = 1
    /\ bpc = "idle"
    /\ buildLog = <<>>

-----------------------------------------------------------------------------
(* lib.ts: formatCommitBlock, on lengths.                                  *)

\* commit.sha.slice(0, 7): a sha is 40 hex digits, its short form 7.
ShortShaLen == 7

\* The length of lines.join(sep) for lines of the given lengths.
JoinLen(lens, sepLen) ==
    IF lens = <<>> THEN 0 ELSE SumSeq(lens) + (Len(lens) - 1) * sepLen

\* diffLines.map((line) => `- ${line}`)
BulletLen(lineLen) == Len("- ") + lineLen

formatCommitBlock(commit) ==
    LET shown == IF Len(commit.diffLines) > 0
                 THEN commit.diffLines
                 ELSE <<Len("(No diff content available)")>>
        diffText == JoinLen([i \in 1..Len(shown) |-> BulletLen(shown[i])], Len("\n"))
    IN  JoinLen(<< Len("Commit ") + ShortShaLen,
                   Len("The following changes had this commit message:"),
                   commit.message,
                   0,
                   Len("The changes in this commit were:"),
                   diffText >>, Len("\n"))

-----------------------------------------------------------------------------
(* index.ts: trimText, truncateCommit, chunkCommits.                       *)

\* The length of trimText(text, maxLength) for a text of length textLen.
trimText(textLen, maxLength) ==
    IF textLen <= maxLength THEN textLen
    ELSE IF maxLength <= 3 THEN maxLength
    ELSE (maxLength - 3) + Len("...")

\* Math.max(200, Math.floor(maxChars / 4))
maxMessageLength(budget) == Max(200, budget \div 4)

\* Math.max(50, maxChars - 200)
hardMessageLength(budget) == Max(50, budget - 200)

\* diffLines.pop()
PopLastBroken(lines) == lines

PopLast(lines) == SubSeq(lines, 1, Len(lines) - 1)

NoTrunc == [message |-> 0, diffLines |-> <<>>, shared |-> FALSE, changed |-> FALSE,
            block |-> 0]

NoCommit == [sha |-> 0, message |-> 0, diffLines |-> <<>>]

\* for (const commit of commits): the next commit is measured, and handed to
\* truncateCommit when its block is over the budget.
ChunkNext ==
    /\ cpc = "loop"
    /\ ci <= Len(commits)
    /\ candidate' = commits[ci]
    /\ cpc' = IF formatCommitBlock(commits[ci]) > maxChars THEN "trunc_msg" ELSE "pack"
    /\ UNCHANGED nonChunkVars
    /\ UNCHANGED <<commits, maxChars, chunks, current, currentSize, ci, trunc, warnings,
                   steps>>

\* A step of the planner on the commit: "message" (the first message
\* truncation), "pop" (a diff line removed), "hard" (the diff lines dropped and
\* the message cut to the hard length) or "pack" (the record put in a chunk).
Step(op, commit) == [op |-> op, sha |-> commit.sha]

\* let diffLines = [...commit.diffLines]: a new array with the input's lines,
\* which shares nothing with the input's array.
CopyLinesBroken(lines) == [lines |-> lines, shared |-> TRUE]

CopyLines(lines) == [lines |-> lines, shared |-> FALSE]

\* truncateCommit, lines 200-210: the copies, the first message truncation and
\* the first measurement.
TruncMessage ==
    /\ cpc = "trunc_msg"
    /\ LET commit == commits[ci]
           over == commit.message > maxMessageLength(maxChars)
           message == IF over THEN trimText(commit.message, maxMessageLength(maxChars))
                      ELSE commit.message
           diffLines == CopyLines(commit.diffLines)
       IN  /\ trunc' = [message |-> message,
                        diffLines |-> diffLines.lines,
                        shared |-> diffLines.shared,
                        changed |-> over,
                        block |-> formatCommitBlock([commit EXCEPT !.message = message])]
           /\ steps' = IF over THEN Append(steps, Step("message", commit)) ELSE steps
    /\ cpc' = "trunc_pop"
    /\ UNCHANGED nonChunkVars
    /\ UNCHANGED <<commits, maxChars, chunks, current, currentSize, ci, candidate, warnings>>

\* truncateCommit, lines 211-215: one iteration of the while loop. pop()
\* changes the array in place: the input's array too if it were the same one.
TruncPop ==
    /\ cpc = "trunc_pop"
    /\ trunc.block > maxChars /\ Len(trunc.diffLines) > 0
    /\ LET lines == PopLast(trunc.diffLines)
       IN  /\ trunc' = [trunc EXCEPT !.diffLines = lines,
                                     !.changed = TRUE,
                                     !.block = formatCommitBlock(
                                         [commits[ci] EXCEPT !.message = trunc.message,
                                                             !.diffLines = lines])]
           /\ commits' = IF trunc.shared
                         THEN [commits EXCEPT ![ci].diffLines = lines]
                         ELSE commits
    /\ steps' = Append(steps, Step("pop", commits[ci]))
    /\ UNCHANGED nonChunkVars
    /\ UNCHANGED <<maxChars, chunks, current, currentSize, ci, candidate, cpc, warnings>>

\* The warning truncateCommit logs for a commit.
TruncationWarningBroken(commit) == [kind |-> "truncated", sha |-> 0]

TruncationWarning(commit) == [kind |-> "truncated", sha |-> commit.sha]

\* truncateCommit, lines 217-234: after the loop, the two ifs, the warning and
\* the returned record, which chunkCommits takes as its candidate.
TruncFinish ==
    /\ cpc = "trunc_pop"
    /\ ~(trunc.block > maxChars /\ Len(trunc.diffLines) > 0)
    /\ LET dropAll == trunc.block > maxChars /\ Len(trunc.diffLines) > 0
           lines1 == IF dropAll THEN <<>> ELSE trunc.diffLines
           hard == trunc.block > maxChars
           message == IF hard THEN trimText(trunc.message, hardMessageLength(maxChars))
                      ELSE trunc.message
           lines2 == IF hard THEN <<>> ELSE lines1
           changed == trunc.changed \/ dropAll \/ hard
       IN  /\ trunc' = [trunc EXCEPT !.message = message, !.diffLines = lines2,
                                     !.changed = changed]
           /\ warnings' = IF changed
                          THEN Append(warnings, TruncationWarning(commits[ci]))
                          ELSE warnings
           /\ candidate' = [commits[ci] EXCEPT !.message = message, !.diffLines = lines2]
           /\ steps' = IF hard THEN Append(steps, Step("hard", commits[ci])) ELSE steps
    /\ cpc' = "pack"
    /\ UNCHANGED nonChunkVars
    /\ UNCHANGED <<commits, maxChars, chunks, current, currentSize, ci>>

\* current.length && currentSize + block.length + 2 > maxChars
NeedsFlushBroken(cur, size, block, budget) ==
    Len(cur) > 0 /\ size > budget

NeedsFlush(cur, size, block, budget) ==
    Len(cur) > 0 /\ size + block + Len("\n\n") > budget

\* chunks.push(current)
PushChunkBroken(cs, cur) == cs

PushChunk(cs, cur) == Append(cs, cur)

\* chunkCommits, lines 254-261: the candidate is packed, after the current chunk
\* is closed when the candidate does not fit.
Pack ==
    /\ cpc = "pack"
    /\ LET block == formatCommitBlock(candidate)
           flush == NeedsFlush(current, currentSize, block, maxChars)
       IN  /\ chunks' = IF flush THEN PushChunk(chunks, current) ELSE chunks
           /\ current' = IF flush THEN <<candidate>> ELSE Append(current, candidate)
           /\ currentSize' = (IF flush THEN 0 ELSE currentSize) + block + Len("\n\n")
    /\ steps' = Append(steps, Step("pack", candidate))
    /\ ci' = ci + 1
    /\ cpc' = "loop"
    /\ UNCHANGED nonChunkVars
    /\ UNCHANGED <<commits, maxChars, candidate, trunc, warnings>>

\* chunkCommits, lines 264-268: after the loop.
ChunkFinish ==
    /\ cpc = "loop"
    /\ ci > Len(commits)
    /\ chunks' = IF Len(current) > 0 THEN PushChunk(chunks, current) ELSE chunks
    /\ cpc' = "done"
    /\ UNCHANGED nonChunkVars
    /\ UNCHANGED <<commits, maxChars, current, currentSize, ci, candidate, trunc, warnings,
                   steps>>

\* The commit records chunkCommits may be given: distinct shas, oldest first.
CommitInputs ==
    UNION {{[i \in 1..n |-> [sha |-> i, message |-> m[i], diffLines |-> d[i]]] :
               m \in [1..n -> MsgLens], d \in [1..n -> DiffLineChoices]} :
           n \in 0..MaxCommits}

-----------------------------------------------------------------------------
(* lib.ts: buildPrompt, extractResponseText; index.ts: buildSummaryPrompt, *)
(* buildFinalPrompt, generateResponseText, on lengths.                     *)

\* The number of decimal digits of n: the length of `${n}`.
RECURSIVE DecLen(_)
DecLen(n) == IF n < 10 THEN 1 ELSE 1 + DecLen(n \div 10)

NotesIntro == "\n\nGitHub auto-generated notes (extra context, do not quote verbatim):\n"

PreviousTagLine(prev) ==
    IF prev # "" THEN Len("Previous tag: ") + Len(prev) ELSE Len("Previous tag: (none)")

\* buildPrompt: the length of the prompt for the commits and the notes.
buildPrompt(tag, prev, list, notes) ==
    LET header == JoinLen(<< Len("Release tag: ") + Len(tag),
                             PreviousTagLine(prev),
                             Len("Commit count: ") + DecLen(Len(list)),
                             0 >>, Len("\n"))
        commitBlocks ==
            IF Len(list) > 0
            THEN [i \in 1..Len(list) |-> formatCommitBlock(list[i])]
            ELSE << Len("No commits were found between the previous and current tag."),
                    Len("Write a short placeholder release note that explains there are no code changes.") >>
    IN  header + JoinLen(commitBlocks, Len("\n\n"))
            + (IF notes > 0 THEN Len(NotesIntro) + notes ELSE 0)

buildSummaryPrompt(tag, prev, list) == buildPrompt(tag, prev, list, 0)

\* buildFinalPrompt: the length of the merge prompt for the summaries' texts.
buildFinalPrompt(tag, prev, texts, notes) ==
    LET header == JoinLen(<< Len("Release tag: ") + Len(tag),
                             PreviousTagLine(prev),
                             Len("Summary batch count: ") + DecLen(Len(texts)),
                             0 >>, Len("\n"))
        blocks == [i \in 1..Len(texts) |->
                      Len("Batch ") + DecLen(i) + Len(" summary:\n") + texts[i]]
    IN  header + JoinLen(blocks, Len("\n\n"))
            + (IF notes > 0 THEN Len(NotesIntro) + notes ELSE 0)

\* A response of the Responses API: rejected (the call throws), or a body in
\* one of the shapes extractResponseText reads: a flat output_text, a list of
\* output_text items, or neither. pad counts the white space around the text
\* and body the text itself.
Responses ==
    { [shape |-> "rejected", pad |-> 0, body |-> 0],
      [shape |-> "none", pad |-> 0, body |-> 0],
      [shape |-> "flat", pad |-> 2, body |-> 0],
      [shape |-> "flat", pad |-> 0, body |-> 80],
      [shape |-> "items", pad |-> 1, body |-> 900] }

\* extractResponseText: the length of the text found, 0 when none is.
extractResponseText(response) ==
    IF response.shape \in {"flat", "items"} THEN response.pad + response.body ELSE 0

\* String.prototype.trim on the extracted text.
Trimmed(response) ==
    IF extractResponseText(response) = 0 THEN 0
    ELSE extractResponseText(response) - response.pad

StageLabel(i) == [kind |-> "stage", index |-> i]

FinalLabel == [kind |-> "final", index |-> 0]

\* generateResponseText: the trimmed text, or the error thrown.
generateResponseTextBroken(response, label) ==
    Returned(Trimmed(response), <<>>)

generateResponseText(response, label) ==
    IF response.shape = "rejected" THEN Thrown("ApiError", label)
    ELSE IF Trimmed(response) = 0 THEN Thrown("EmptyModelResponse", label)
    ELSE Returned(Trimmed(response), <<>>)

-----------------------------------------------------------------------------
(* index.ts: run, from the prompt on.                                      *)

NoError == [status |-> "none"]

\* Math.max(1000, maxStageChars - 2000)
chunkBudgetBroken(budget) == Max(1000, budget)

chunkBudget(budget) == Max(1000, budget - 2000)

\* A call of generateResponseText recorded: the label, the prompt's length,
\* the summaries a merge prompt was built from, the response, and the text
\* the call returned (0 when it threw).
Submission(label, prompt, sections, response, outcome) ==
    [label |-> label, prompt |-> prompt, sections |-> sections,
     response |-> response,
     text |-> IF outcome.status = "returned" THEN outcome.value ELSE 0,
     ok |-> outcome.status = "returned"]

\* fullPrompt.length <= maxStageChars
WithinStageCharsBroken(promptLen, budget) == TRUE

WithinStageChars(promptLen, budget) == promptLen <= budget

\* run, lines 431-450: the full prompt is measured; it is submitted as it is
\* when within maxStageChars, and else chunkCommits is called.
RunPlan ==
    /\ rpc = "start"
    /\ IF WithinStageChars(buildPrompt(runTag, runPreviousTag, commits, githubNotes),
                           maxStageChars)
       THEN /\ rpc' = "direct"
            /\ UNCHANGED <<maxChars, cpc>>
       ELSE /\ rpc' = "chunking"
            /\ maxChars' = chunkBudget(maxStageChars)
            /\ cpc' = "loop"
    /\ UNCHANGED <<commits, chunks, current, currentSize, ci, candidate, trunc, warnings,
                   steps>>
    /\ UNCHANGED <<runTag, runPreviousTag, maxStageChars, githubNotes, summaries, bindex,
                   submissions, releaseNotes, published, failure>>
    /\ UNCHANGED <<repoVars, buildVars>>

\* run, lines 434-441: the direct submission, labelled "final".
RunDirect ==
    /\ rpc = "direct"
    /\ \E response \in Responses :
          LET prompt == buildPrompt(runTag, runPreviousTag, commits, githubNotes)
              out == generateResponseText(response, FinalLabel)
          IN  /\ submissions' = Append(submissions,
                                       Submission(FinalLabel, prompt, <<>>, response, out))
              /\ IF out.status = "thrown"
                 THEN /\ failure' = out
                      /\ rpc' = "failed"
                      /\ UNCHANGED releaseNotes
                 ELSE /\ releaseNotes' = out.value
                      /\ rpc' = "publish"
                      /\ UNCHANGED failure
    /\ UNCHANGED <<runTag, runPreviousTag, maxStageChars, githubNotes, summaries, bindex,
                   published>>
    /\ UNCHANGED <<chunkVars, repoVars, buildVars>>

\* summaries.push(summary)
PushSummaryBroken(list, summary) == <<summary>> \o list

PushSummary(list, summary) == Append(list, summary)

\* run, lines 452-462: one iteration of the batch loop, once chunkCommits has
\* returned: the chunk's prompt is submitted under the label stage-(index+1).
RunBatch ==
    /\ rpc = "chunking"
    /\ cpc = "done"
    /\ bindex < Len(chunks)
    /\ \E response \in Responses :
          LET prompt == buildSummaryPrompt(runTag, runPreviousTag, chunks[bindex + 1])
              out == generateResponseText(response, StageLabel(bindex + 1))
          IN  /\ submissions' = Append(submissions,
                                       Submission(StageLabel(bindex + 1), prompt, <<>>,
                                                  response, out))
              /\ IF out.status = "thrown"
                 THEN /\ failure' = out
                      /\ rpc' = "failed"
                      /\ UNCHANGED <<summaries, bindex>>
                 ELSE /\ summaries' = PushSummary(summaries, out.value)
                      /\ bindex' = bindex + 1
                      /\ UNCHANGED <<failure, rpc>>
    /\ UNCHANGED <<runTag, runPreviousTag, maxStageChars, githubNotes, releaseNotes,
                   published>>
    /\ UNCHANGED <<chunkVars, repoVars, buildVars>>

\* run, lines 464-477: after the loop the merge prompt is built from the
\* summaries and submitted under the label "final".
RunMerge ==
    /\ rpc = "chunking"
    /\ cpc = "done"
    /\ bindex >= Len(chunks)
    /\ \E response \in Responses :
          LET prompt == buildFinalPrompt(runTag, runPreviousTag, summaries, githubNotes)
              out == generateResponseText(response, FinalLabel)
          IN  /\ submissions' = Append(submissions,
                                       Submission(FinalLabel, prompt, summaries, response, out))
              /\ IF out.status = "thrown"
                 THEN /\ failure' = out
                      /\ rpc' = "failed"
                      /\ UNCHANGED releaseNotes
                 ELSE /\ releaseNotes' = out.value
                      /\ rpc' = "publish"
                      /\ UNCHANGED failure
    /\ UNCHANGED <<runTag, runPreviousTag, maxStageChars, githubNotes, summaries, bindex,
                   published>>
    /\ UNCHANGED <<chunkVars, repoVars, buildVars>>

\* run, lines 479-499: octokit.rest.repos.createRelease with the notes; the
\* call may throw, which fails the run.
RunPublish ==
    /\ rpc = "publish"
    /\ \E created \in BOOLEAN :
          IF created
          THEN /\ published' = Append(published, releaseNotes)
               /\ rpc' = "done"
               /\ UNCHANGED failure
          ELSE /\ failure' = Thrown("CreateReleaseFailed", FinalLabel)
               /\ rpc' = "failed"
               /\ UNCHANGED published
    /\ UNCHANGED <<runTag, runPreviousTag, maxStageChars, githubNotes, summaries, bindex,
                   submissions, releaseNotes>>
    /\ UNCHANGED <<chunkVars, repoVars, buildVars>>

-----------------------------------------------------------------------------
(* The specifications: one per part of the program.                        *)

\* No call made yet.
NoCall == [status |-> "none"]

RepoIdle ==
    /\ history = 0
    /\ tagList = <<>>
    /\ resolved = NoCall
    /\ ranged = NoCall

ChunkIdle ==
    /\ maxChars = 0
    /\ chunks = <<>>
    /\ current = <<>>
    /\ currentSize = 0
    /\ ci = 1
    /\ candidate = NoCommit
    /\ trunc = NoTrunc
    /\ cpc = "idle"
    /\ warnings = <<>>
    /\ steps = <<>>

RunIdle ==
    /\ rpc = "idle"
    /\ runTag = ""
    /\ runPreviousTag = ""
    /\ maxStageChars = 0
    /\ githubNotes = 0
    /\ summaries = <<>>
    /\ bindex = 0
    /\ submissions = <<>>
    /\ releaseNotes = 0
    /\ published = <<>>
    /\ failure = NoError

\* chunkCommits(commits, maxChars, logger) is called.
ChunkInit ==
    /\ RepoIdle
    /\ BuildIdle
    /\ RunIdle
    /\ commits \in CommitInputs
    /\ maxChars \in Budgets
    /\ chunks = <<>>
    /\ current = <<>>
    /\ currentSize = 0
    /\ ci = 1
    /\ candidate = NoCommit
    /\ trunc = NoTrunc
    /\ cpc = "loop"
    /\ warnings = <<>>
    /\ steps = <<>>

ChunkStep == ChunkNext \/ TruncMessage \/ TruncPop \/ TruncFinish \/ Pack \/ ChunkFinish

SpecChunk == ChunkInit /\ [][ChunkStep]_vars

\* An empty repository, on which commits and tags are made and then queried.
RepoInit == RepoIdle /\ ChunkIdle /\ commits = <<>> /\ BuildIdle /\ RunIdle

RepoStep == GitCommit \/ GitTag \/ ResolvePreviousTag \/ GetCommitShas

SpecRepo == RepoInit /\ [][RepoStep]_vars

\* buildCommitData(shas, maxDiffLines, logger, sourceExtensions) is called
\* with one or two shas.
BuildInit ==
    /\ RepoIdle
    /\ ChunkIdle
    /\ commits = <<>>
    /\ RunIdle
    /\ gitCommits \in [1..1 -> GitCommitChoices] \cup [1..2 -> GitCommitChoices]
    /\ maxDiffLines \in 1..MaxDiffCap
    /\ gitFault \in GitFaults
    /\ records = <<>>
    /\ bi = 1
    /\ bpc = "mapping"
    /\ buildLog = <<>>

BuildStep == BuildCommitData

SpecBuild == BuildInit /\ [][BuildStep]_vars

\* run() has validated its inputs (max_stage_chars >= 1000), resolved the
\* tags, built the commit records and fetched the GitHub notes.
RunInit ==
    /\ RepoIdle
    /\ BuildIdle
    /\ ChunkIdle
    /\ commits \in CommitInputs
    /\ rpc = "start"
    /\ runTag = "v1.1.0"
    /\ runPreviousTag \in {"", "v1.0.0"}
    /\ maxStageChars \in StageBudgets
    /\ githubNotes \in NotesLens
    /\ summaries = <<>>
    /\ bindex = 0
    /\ submissions = <<>>
    /\ releaseNotes = 0
    /\ published = <<>>
    /\ failure = NoError

RunStep == RunPlan \/ RunDirect \/ RunBatch \/ RunMerge \/ RunPublish \/ ChunkStep

SpecRun == RunInit /\ [][RunStep]_vars

-----------------------------------------------------------------------------
(* Properties of resolvePreviousTag and getCommitShas.                     *)

\* The tag list L, newest first, of the repository.
L == listTags(tagList)

\* C5: without an override and with the current tag T in L, the call returns
\* the element right after T in L, or "" when T is the last element.
C5_PreviousIsNextInList ==
    (resolved.status # "none" /\ resolved.override = ""
        /\ resolved.currentTag \in TagNamesOf(tagList)) =>
        /\ resolved.status = "returned"
        /\ \E i \in 1..Len(L) :
              /\ L[i] = resolved.currentTag
              /\ i = Len(L) => resolved.value = ""
              /\ i < Len(L) => resolved.value = L[i + 1]

\* C5 witness: the current tag is the middle one of three and the call
\* returned a tag.
C5_Witness ==
    /\ resolved.status = "returned"
    /\ resolved.override = ""
    /\ Len(L) = 3
    /\ L[2] = resolved.currentTag
    /\ resolved.value = L[3]

\* The sentinel case of C5 happens: the current tag is the oldest of several.
C5_SentinelReached ==
    /\ resolved.status = "returned"
    /\ resolved.override = ""
    /\ Len(L) >= 2
    /\ resolved.value = ""

C7_NoTagsOrTagNotFound ==
    (resolved.status # "none" /\ resolved.override = "") =>
        /\ Len(L) = 0 => (resolved.status = "thrown" /\ resolved.error = "NoTagsFound")
        /\ (Len(L) > 0 /\ resolved.currentTag \notin TagNamesOf(tagList)) =>
              /\ resolved.status = "thrown"
              /\ resolved.error = "TagNotFound"
              /\ resolved.name = resolved.currentTag

\* C7 witness: a non-empty tag list without the current tag.
C7_Witness ==
    /\ resolved.status = "thrown"
    /\ resolved.error = "TagNotFound"
    /\ resolved.override = ""
    /\ Len(L) >= 2

\* The other case of C7 happens: no tags at all.
C7_NoTagsReached ==
    /\ resolved.status = "thrown"
    /\ resolved.error = "NoTagsFound"

\* The chronological commit list C of the range of the last getCommitShas call.
RangeC == GitLogRange(tagList, ranged.previousTag, ranged.currentTag)

IsTruncationNotice(entry) == entry.kind = "truncating"

\* C8: for a range with commit list C and a cap N, 1 <= N < |C|, the call
\* returns the last N elements of C, oldest first, and logs a truncation
\* warning; with |C| <= N it returns C and logs nothing; an empty range
\* returns the empty sequence.
C8_KeepsMostRecent ==
    (ranged.status # "none"
        /\ ~GitLogFails(tagList, ranged.previousTag, ranged.currentTag)) =>
        LET N == ranged.maxCommits
        IN  /\ ranged.status = "returned"
            /\ Len(RangeC) > N =>
                  /\ ranged.value = [i \in 1..N |-> RangeC[Len(RangeC) - N + i]]
                  /\ \E k \in 1..Len(ranged.logged) : IsTruncationNotice(ranged.logged[k])
            /\ Len(RangeC) <= N =>
                  /\ ranged.value = RangeC
                  /\ ranged.logged = <<>>

\* C8 witness: three commits in range, a cap of two: the two most recent are
\* returned and the warning is logged.
C8_Witness ==
    /\ ranged.status = "returned"
    /\ ranged.maxCommits = 2
    /\ Len(RangeC) = 3
    /\ ranged.value = <<2, 3>>
    /\ Len(ranged.logged) = 1

\* The empty range of C8 happens: two tags on one commit.
C8_EmptyRangeReached ==
    /\ ranged.status = "returned"
    /\ ranged.previousTag # ""
    /\ ranged.value = <<>>

-----------------------------------------------------------------------------
(* Properties of buildCommitData and extractDiffLines.                     *)

\* The lines kept in the records produced so far.
StoredLines ==
    UNION {{records[i].diffLines[k] : k \in 1..Len(records[i].diffLines)} :
              i \in 1..Len(records)}

HasFile(commit, path) == \E k \in 1..Len(commit.files) : commit.files[k].path = path

\* C9: the diffLines of every record buildCommitData produces has at most
\* maxDiffLines elements, on every path.
C9_DiffLinesWithinCap ==
    \A i \in 1..Len(records) : Len(records[i].diffLines) <= maxDiffLines

\* C9 witness: a commit whose source diff alone fills the cap and which also
\* changes a non-source file, whose summary is appended and cut off.
C9_Witness ==
    \E i \in 1..Len(records) :
        /\ HasFile(gitCommits[i], "src/app.ts")
        /\ HasFile(gitCommits[i], "README.md")
        /\ FaultAt(i) = "none"
        /\ Len(records[i].diffLines) = maxDiffLines
        /\ \A k \in 1..Len(records[i].diffLines) : records[i].diffLines[k].kind = "diff"

\* The other paths of C9 happen: the name-status fallback and the fallback
\* after a failed diff.
C9_FallbackReached ==
    \E e \in StoredLines : e.kind = "status"

C9_FailureFallbackReached ==
    /\ Len(buildLog) > 0
    /\ \E e \in StoredLines : e.kind = "summary" /\ e.text = "source change (diff omitted)"

\* C10 (as stated): a diff line longer than MAX_LINE_LENGTH is stored as a line
\* of exactly MAX_LINE_LENGTH characters ending with "...", a shorter one is
\* stored untouched, and no stored line is longer than MAX_LINE_LENGTH.
C10_StoredLineAtMostK ==
    \A e \in StoredLines :
        /\ EntryLen(e) <= MAX_LINE_LENGTH
        /\ e.kind = "diff" =>
              /\ e.of > MAX_LINE_LENGTH => (EntryLen(e) = MAX_LINE_LENGTH /\ e.ell)
              /\ e.of <= MAX_LINE_LENGTH => (EntryLen(e) = e.of /\ ~e.ell)

\* C10 (amended): the stored line is the file's path, ": " and the diff text;
\* the diff text of a line longer than MAX_LINE_LENGTH has exactly
\* MAX_LINE_LENGTH characters and ends with "...", and a shorter line's text is
\* the line untouched; so a stored diff line has at most
\* |path| + 2 + MAX_LINE_LENGTH characters.
C10_DiffTextAtMostK ==
    \A e \in StoredLines :
        e.kind = "diff" =>
            /\ e.of > MAX_LINE_LENGTH => (e.len = MAX_LINE_LENGTH /\ e.ell)
            /\ e.of <= MAX_LINE_LENGTH => (e.len = e.of /\ ~e.ell)
            /\ EntryLen(e) = (IF e.path = "" THEN 0 ELSE Len(e.path) + 2) + e.len
            /\ EntryLen(e) <= Len(e.path) + 2 + MAX_LINE_LENGTH

\* C10 witness: a diff line of 500 characters is stored with a text of 300
\* characters ending with the ellipsis, after its path.
C10_Witness ==
    \E e \in StoredLines :
        /\ e.kind = "diff"
        /\ e.of = 500
        /\ e.len = 300
        /\ e.ell
        /\ EntryLen(e) = Len("src/app.ts: ") + 300

\* The untouched case of C10 happens: a line of exactly 300 characters.
C10_UntouchedReached ==
    \E e \in StoredLines : e.kind = "diff" /\ e.of = 300 /\ e.len = 300 /\ ~e.ell

-----------------------------------------------------------------------------
(* Properties of run.                                                      *)

\* The summarizer answered with no text: no text field, or white space only.
IsEmptyAnswer(response) ==
    response.shape # "rejected" /\ (response.shape = "none" \/ response.body = 0)

\* C3: when the summarizer returns empty or white-space-only text for a stage,
\* the run fails with the error naming that stage's label, that submission is
\* the last one, and createRelease is never called.
C3_EmptyResponseAborts ==
    \A j \in 1..Len(submissions) :
        IsEmptyAnswer(submissions[j].response) =>
            /\ j = Len(submissions)
            /\ rpc = "failed"
            /\ failure.status = "thrown"
            /\ failure.error = "EmptyModelResponse"
            /\ failure.name = submissions[j].label
            /\ published = <<>>

\* C3 witness: in staged mode stage 1 returned text and stage 2 white space
\* only; the run has failed naming stage-2.
C3_Witness ==
    /\ Len(submissions) = 2
    /\ submissions[1].ok
    /\ submissions[2].label = StageLabel(2)
    /\ submissions[2].response.shape = "flat"
    /\ submissions[2].response.pad > 0
    /\ submissions[2].response.body = 0
    /\ rpc = "failed"
    /\ failure.name = StageLabel(2)

\* The run went through chunkCommits: staged mode.
Staged == cpc # "idle"

\* C4: in staged mode with k chunks, the final submission comes after the
\* submissions of stages 1..k, each of chunk i's prompt and each answered with
\* text, and the merge prompt is built from exactly those k texts in the order
\* of the chunks.
C4_MergeAfterAllBatches ==
    \A j \in 1..Len(submissions) :
        (Staged /\ submissions[j].label = FinalLabel) =>
            LET k == Len(chunks)
            IN  /\ cpc = "done"
                /\ j = k + 1
                /\ \A i \in 1..k :
                      /\ submissions[i].label = StageLabel(i)
                      /\ submissions[i].prompt =
                            buildSummaryPrompt(runTag, runPreviousTag, chunks[i])
                      /\ submissions[i].ok
                      /\ submissions[i].text > 0
                /\ submissions[j].sections = [i \in 1..k |-> submissions[i].text]
                /\ submissions[j].prompt =
                      buildFinalPrompt(runTag, runPreviousTag,
                                       [i \in 1..k |-> submissions[i].text], githubNotes)

\* C4 witness: two chunks whose summaries differ, merged in chunk order and
\* published.
C4_Witness ==
    /\ Staged
    /\ Len(chunks) = 2
    /\ Len(submissions) = 3
    /\ submissions[1].text = 80
    /\ submissions[2].text = 900
    /\ submissions[3].sections = <<80, 900>>
    /\ rpc = "done"

-----------------------------------------------------------------------------
(* Properties of chunkCommits.                                             *)

IsPrefix(s, t) == Len(s) <= Len(t) /\ s = SubSeq(t, 1, Len(s))

\* The serialized size of a chunk: its commit blocks joined by "\n\n".
ChunkSize(chunk) ==
    JoinLen([i \in 1..Len(chunk) |-> formatCommitBlock(chunk[i])], Len("\n\n"))

\* The block of a commit reduced to its message: no diff lines.
MessageOnlyBlock(commit) == formatCommitBlock([commit EXCEPT !.diffLines = <<>>])

\* A record is the truncation of another: the same sha, a message no longer and
\* a leading part of the diff lines.
IsTruncationOf(out, orig) ==
    /\ out.sha = orig.sha
    /\ out.message <= orig.message
    /\ IsPrefix(out.diffLines, orig.diffLines)

\* C1 (as stated): the chunks' commit sequences, concatenated in chunk order,
\* are the input commit record sequence itself, record for record.
C1_ConcatEqualsInput == cpc = "done" => Flatten(chunks) = commits

\* C1 (amended): the concatenation of the chunks has the input's shas, one
\* record per input record in the input's order; a record whose block fits the
\* budget is the input record itself and a record over the budget is its
\* truncation (same sha, shortened message, leading diff lines).
C1_ConcatIsInputUpToTruncation ==
    cpc = "done" =>
        LET out == Flatten(chunks)
        IN  /\ Len(out) = Len(commits)
            /\ \A i \in 1..Len(commits) :
                  /\ IsTruncationOf(out[i], commits[i])
                  /\ formatCommitBlock(commits[i]) <= maxChars => out[i] = commits[i]

\* C1 witness: a finished plan of two chunks, one of them a truncated record.
C1_Witness ==
    /\ cpc = "done"
    /\ Len(chunks) = 2
    /\ \E i \in 1..Len(commits) : Flatten(chunks)[i] # commits[i]

\* C2: every chunk's serialized size is within the budget, except a chunk of a
\* single commit whose message-only block is still over the budget.
C2_ChunkWithinBudget ==
    \A k \in 1..Len(chunks) :
        \/ ChunkSize(chunks[k]) <= maxChars
        \/ /\ Len(chunks[k]) = 1
           /\ MessageOnlyBlock(chunks[k][1]) > maxChars

\* C2 witness: a finished plan under a budget the run can pass, whose first
\* chunk is a single truncated commit that fits and whose second chunk fits too.
C2_Witness ==
    /\ cpc = "done"
    /\ maxChars >= 1000
    /\ Len(chunks) = 2
    /\ chunks[1][1] # commits[1]
    /\ \A k \in 1..2 : ChunkSize(chunks[k]) <= maxChars

\* The exception of C2 happens: a single-commit chunk over the budget.
C2_OverflowChunk ==
    \E k \in 1..Len(chunks) : ChunkSize(chunks[k]) > maxChars

-----------------------------------------------------------------------------
(* Properties of the batch prompts of run.                                 *)

\* The header buildPrompt puts before the commit blocks of n commits: three
\* lines and an empty one, joined by "\n".
PromptHeader(tag, prev, n) ==
    JoinLen(<< Len("Release tag: ") + Len(tag),
               PreviousTagLine(prev),
               Len("Commit count: ") + DecLen(n),
               0 >>, Len("\n"))

\* The chunk a stage submission was made for.
ChunkOf(submission) == chunks[submission.label.index]

IsStage(submission) == submission.label.kind = "stage"

\* C11 (as stated): in staged mode every per-chunk prompt submitted (header
\* plus the chunk's commit blocks) has length <= maxStageChars - 2000, except
\* the prompt of a chunk made of a single commit that was over the budget.
C11_ChunkPromptWithinReserve ==
    \A j \in 1..Len(submissions) :
        IsStage(submissions[j]) =>
            \/ submissions[j].prompt <= maxStageChars - 2000
            \/ /\ Len(ChunkOf(submissions[j])) = 1
               /\ \E i \in 1..Len(commits) :
                     /\ commits[i].sha = ChunkOf(submissions[j])[1].sha
                     /\ formatCommitBlock(commits[i]) > maxStageChars - 2000

\* C11 (amended): in staged mode every per-chunk prompt is the header followed
\* by the chunk's commit blocks; the blocks, joined, have length
\* <= max(1000, maxStageChars - 2000), so the prompt has length
\* <= |header| + max(1000, maxStageChars - 2000); with a budget of at least
\* 1000 no single commit stays over it.
C11_ChunkBlocksWithinReserve ==
    \A j \in 1..Len(submissions) :
        IsStage(submissions[j]) =>
            LET chunk == ChunkOf(submissions[j])
                header == PromptHeader(runTag, runPreviousTag, Len(chunk))
            IN  /\ submissions[j].prompt = header + ChunkSize(chunk)
                /\ ChunkSize(chunk) <= Max(1000, maxStageChars - 2000)
                /\ submissions[j].prompt <= header + Max(1000, maxStageChars - 2000)

\* C11 witness: with maxStageChars = 3300 a chunk of two commits was submitted
\* whose blocks are within 1300 and whose prompt, with the header, is not.
C11_Witness ==
    \E j \in 1..Len(submissions) :
        /\ IsStage(submissions[j])
        /\ maxStageChars = 3300
        /\ Len(ChunkOf(submissions[j])) = 2
        /\ ChunkSize(ChunkOf(submissions[j])) <= 1300
        /\ submissions[j].prompt > 1300
        /\ submissions[j].ok

-----------------------------------------------------------------------------
(* Properties of buildCommitData's fallbacks.                              *)

\* The commit's files that getFileStats classifies as source, and the others.
IsSourceFile(file) == ~file.binary /\ file.ext \in DEFAULT_SOURCE_EXTENSIONS

IsOtherFile(file) == ~IsSourceFile(file)

HasSourcePath(commit) == \E k \in 1..Len(commit.files) : IsSourceFile(commit.files[k])

\* The diff of the commit holds no line extractDiffLines keeps.
DiffYieldsNothing(commit) ==
    LET source == SelectSeq(commit.files, IsSourceFile)
    IN  DiffLoop(GitShowDiff(commit.files), 1, <<>>, "", TRUE, maxDiffLines,
                 {source[k].path : k \in 1..Len(source)}) = <<>>

\* The callback of shas.map has run for the sha at position i: it returned a
\* record or it threw.
Processed(i) == Len(records) >= i \/ (bpc = "thrown" /\ bi = i)

\* `${path}: added|modified|deleted|renamed|copied` for every file.
NameStatusLines(commit) ==
    [k \in 1..Len(commit.files) |->
        Entry(commit.files[k].path, "status", formatFileStatus(commit.files[k].status),
              Len(formatFileStatus(commit.files[k].status)), FALSE, 0)]

\* `${path}: source change (diff omitted)` for every source file.
SourceSummaryLines(commit) ==
    LET source == SelectSeq(commit.files, IsSourceFile)
    IN  [k \in 1..Len(source) |->
            Entry(source[k].path, "summary", "source change (diff omitted)", 28, FALSE, 0)]

\* The one-line summaries of the binary and non-source files.
OtherSummaryLines(commit) ==
    LET other == SelectSeq(commit.files, IsOtherFile)
    IN  [k \in 1..Len(other) |->
            IF other[k].binary
            THEN Entry(other[k].path, "summary", "binary change (diff omitted)", 28,
                       FALSE, 0)
            ELSE Entry(other[k].path, "summary", "non-source change (diff omitted)", 32,
                       FALSE, 0)]

FirstN(seq, n) == SubSeq(seq, 1, IF Len(seq) < n THEN Len(seq) ELSE n)

\* C12 (as stated): for a commit with a source path whose diff retrieval fails
\* or whose diff yields no content lines, buildCommitData does not raise and
\* returns a record whose diff lines are name-status lines.
C12_FallbackIsNameStatus ==
    \A i \in 1..Len(gitCommits) :
        (/\ HasSourcePath(gitCommits[i])
         /\ Processed(i)
         /\ \/ FaultAt(i) = "show"
            \/ FaultAt(i) = "none" /\ DiffYieldsNothing(gitCommits[i])) =>
            /\ Len(records) >= i
            /\ records[i].sha = i
            /\ Len(records[i].diffLines) > 0
            /\ \A k \in 1..Len(records[i].diffLines) :
                  records[i].diffLines[k].kind = "status"

\* C12 (amended): for a commit with a source path, buildCommitData does not
\* raise when the diff cannot be read or yields no line. When git show fails,
\* or the name-status listing after an empty diff fails, a warning naming the
\* commit is logged and the diff lines are one "path: source change (diff
\* omitted)" line per source path; when the diff yields no line they are the
\* name-status lines of all the commit's files. In both cases the summaries of
\* the binary and non-source files follow, each part and the whole cut to
\* maxDiffLines, and the map goes on with the next commit.
C12_DegradesWithoutRaising ==
    \A i \in 1..Len(gitCommits) :
        (/\ HasSourcePath(gitCommits[i])
         /\ Processed(i)
         /\ \/ FaultAt(i) = "show"
            \/ FaultAt(i) \in {"none", "name-status"} /\ DiffYieldsNothing(gitCommits[i])) =>
            LET failed == FaultAt(i) # "none"
                lines == IF failed THEN SourceSummaryLines(gitCommits[i])
                         ELSE NameStatusLines(gitCommits[i])
            IN  /\ Len(records) >= i
                /\ records[i].sha = i
                /\ records[i].diffLines =
                      FirstN(FirstN(lines, maxDiffLines) \o OtherSummaryLines(gitCommits[i]),
                             maxDiffLines)
                /\ failed <=> (\E k \in 1..Len(buildLog) :
                                  buildLog[k] = [kind |-> "diff-failed", sha |-> i])
                /\ (bpc = "thrown" => bi > i)
                /\ (bpc = "done" => Len(records) = Len(gitCommits))

\* C12 witness: git show failed for the first of two commits, which changes a
\* source and a non-source file; its record holds the two summaries, the
\* warning is logged, and the second commit has its record too.
C12_Witness ==
    /\ Len(records) = 2
    /\ FaultAt(1) = "show"
    /\ HasSourcePath(gitCommits[1])
    /\ maxDiffLines >= 2
    /\ Len(records[1].diffLines) = 2
    /\ records[1].diffLines[1].text = "source change (diff omitted)"
    /\ records[1].diffLines[2].text = "non-source change (diff omitted)"
    /\ Len(buildLog) = 1
    /\ bpc = "done"

\* The other case of C12 happens: an empty diff, and the name-status lines of
\* both files followed by the summary of the non-source one.
C12_EmptyDiffReached ==
    \E i \in 1..Len(records) :
        /\ FaultAt(i) = "none"
        /\ DiffYieldsNothing(gitCommits[i])
        /\ Len(records[i].diffLines) = 3
        /\ records[i].diffLines[1].kind = "status"
        /\ records[i].diffLines[2].kind = "status"
        /\ records[i].diffLines[3].kind = "summary"

-----------------------------------------------------------------------------
(* Properties of the submissions of run.                                   *)

\* The prompt of all the commits and the notes, which run measures first.
FullPrompt == buildPrompt(runTag, runPreviousTag, commits, githubNotes)

\* The run has a text to publish or has published it.
Publishing == rpc \in {"publish", "done"}

\* C13: the run takes one of two paths, without retries. With the full prompt
\* within maxStageChars it makes no batch submission and one submission, of
\* the full prompt under the final label. Otherwise, with k chunks, it submits
\* stage 1..k in that order, each once, then the final prompt once, and it
\* publishes only after the final submission returned; a submission that
\* failed is the last one.
C13_OnePathNoRetries ==
    LET n == Len(submissions)
    IN  /\ \A j \in 1..n : ~submissions[j].ok => (j = n /\ rpc = "failed")
        /\ Len(published) <= 1
        /\ (published # <<>> => rpc = "done")
        /\ FullPrompt <= maxStageChars =>
              /\ ~Staged
              /\ n <= 1
              /\ \A j \in 1..n : /\ submissions[j].label = FinalLabel
                                 /\ submissions[j].prompt = FullPrompt
              /\ Publishing => (n = 1 /\ submissions[1].ok)
        /\ (FullPrompt > maxStageChars /\ rpc # "start") =>
              /\ Staged
              /\ cpc # "done" => n = 0
              /\ n <= Len(chunks) + 1
              /\ \A j \in 1..n :
                    submissions[j].label =
                        IF j <= Len(chunks) THEN StageLabel(j) ELSE FinalLabel
              /\ Publishing => (n = Len(chunks) + 1 /\ submissions[n].ok)

\* C13 witness: a staged run of two chunks has published after stage 1,
\* stage 2 and the final submission.
C13_Witness ==
    /\ FullPrompt > maxStageChars
    /\ Len(chunks) = 2
    /\ Len(submissions) = 3
    /\ submissions[1].label = StageLabel(1)
    /\ submissions[2].label = StageLabel(2)
    /\ submissions[3].label = FinalLabel
    /\ Len(published) = 1

\* The direct path of C13 happens: one submission, then the release.
C13_DirectReached ==
    /\ FullPrompt <= maxStageChars
    /\ Len(commits) > 0
    /\ Len(submissions) = 1
    /\ Len(published) = 1

-----------------------------------------------------------------------------
(* Properties of the lines of binary and non-source files.                 *)

\* The one-line summary of a binary or non-source file.
SummaryOf(file) ==
    IF file.binary
    THEN Entry(file.path, "summary", "binary change (diff omitted)", 28, FALSE, 0)
    ELSE Entry(file.path, "summary", "non-source change (diff omitted)", 32, FALSE, 0)

\* The positions of the record's diff lines that begin with the path.
LinesOf(record, path) ==
    {k \in 1..Len(record.diffLines) : record.diffLines[k].path = path}

\* C14: for every binary or non-source file of a commit, the record's diff
\* lines hold no raw diff content of the file and no line of the file but its
\* one-line summary, at most once; the record of a commit that changes one
\* binary file only holds exactly that line.
C14_OnlySummaryForOtherFiles ==
    \A i \in 1..Len(records) :
        LET files == gitCommits[i].files
        IN  /\ \A f \in 1..Len(files) :
                  IsOtherFile(files[f]) =>
                      /\ \A k \in LinesOf(records[i], files[f].path) :
                            /\ records[i].diffLines[k].kind \notin {"diff", "binaryLine"}
                            /\ records[i].diffLines[k] = SummaryOf(files[f])
                      /\ Cardinality(LinesOf(records[i], files[f].path)) <= 1
            /\ (Len(files) = 1 /\ files[1].binary) =>
                  records[i].diffLines = <<SummaryOf(files[1])>>

\* What holds of C14: no raw diff content of a binary or non-source file is
\* kept, and a commit changing one binary file only yields its summary line.
C14_NoRawDiffOfOtherFiles ==
    \A i \in 1..Len(records) :
        LET files == gitCommits[i].files
        IN  /\ \A f \in 1..Len(files) :
                  IsOtherFile(files[f]) =>
                      \A k \in LinesOf(records[i], files[f].path) :
                          records[i].diffLines[k].kind \in {"summary", "status"}
            /\ (Len(files) = 1 /\ files[1].binary) =>
                  records[i].diffLines = <<SummaryOf(files[1])>>

\* The failing input of C14: a commit that renames tools/run.sh without a
\* content change and modifies README.md, with maxDiffLines = 3; README.md
\* has a name-status line and its summary in the record.
C14_StatusLineOfNonSource ==
    \E i \in 1..Len(records) :
        /\ FaultAt(i) = "none"
        /\ Len(records[i].diffLines) = 3
        /\ records[i].diffLines[1] = Entry("README.md", "status", "modified", 8, FALSE, 0)
        /\ records[i].diffLines[2] = Entry("tools/run.sh", "status", "renamed", 7, FALSE, 0)
        /\ records[i].diffLines[3] = SummaryOf([path |-> "README.md", binary |-> FALSE])

\* The binary-only commit of C14 happens.
C14_BinaryOnlyReached ==
    \E i \in 1..Len(records) :
        /\ Len(gitCommits[i].files) = 1
        /\ gitCommits[i].files[1].binary
        /\ records[i].diffLines =
              <<Entry("assets/logo.png", "summary", "binary change (diff omitted)", 28,
                      FALSE, 0)>>

-----------------------------------------------------------------------------
(* Properties of the steps of truncateCommit and chunkCommits.             *)

\* The positions in steps of the steps of that kind on that commit.
StepsOf(op, commit) == {k \in 1..Len(steps) : steps[k] = [op |-> op, sha |-> commit.sha]}

CountSteps(op, commit) == Cardinality(StepsOf(op, commit))

\* The order the steps on one commit are allowed in.
StepOrder(op) ==
    CASE op = "message" -> 1
      [] op = "pop" -> 2
      [] op = "hard" -> 3
      [] op = "pack" -> 4

\* The number of diff lines of the commits from position i on.
RECURSIVE DiffLinesFrom(_)
DiffLinesFrom(i) ==
    IF i > Len(commits) THEN 0 ELSE Len(commits[i].diffLines) + DiffLinesFrom(i + 1)

\* The number of steps chunkCommits can still take at most: for every commit
\* not yet packed the loop head, the message truncation, one removal per diff
\* line, the end of truncateCommit and the packing; then the end of the loop.
StepsLeft ==
    LET perCommit == 4 * (Len(commits) - ci + 1) + DiffLinesFrom(ci) + 1
        spent == CASE cpc = "trunc_msg" -> 1
                   [] cpc = "trunc_pop" ->
                         2 + (Len(commits[ci].diffLines) - Len(trunc.diffLines))
                   [] cpc = "pack" -> 3 + Len(commits[ci].diffLines)
                   [] OTHER -> 0
    IN  IF cpc = "done" THEN 0 ELSE perCommit - spent

\* C15: truncateCommit takes, on one commit, at most one message truncation,
\* then at most |diffLines| removals of the last line, then at most one final
\* message truncation; chunkCommits packs each commit at most once, is never
\* stuck before its end, every step brings the end nearer, and at the end
\* every commit has been packed exactly once, in the input's order.
C15_StepBounds ==
    /\ \A i \in 1..Len(commits) :
          /\ CountSteps("message", commits[i]) <= 1
          /\ CountSteps("pop", commits[i]) <= Len(commits[i].diffLines)
          /\ CountSteps("hard", commits[i]) <= 1
          /\ CountSteps("pack", commits[i]) <= 1
    /\ \A a, b \in 1..Len(steps) :
          (a < b /\ steps[a].sha = steps[b].sha) =>
              StepOrder(steps[a].op) <= StepOrder(steps[b].op)
    /\ StepsLeft >= 0
    /\ cpc # "done" => ENABLED ChunkStep
    /\ cpc = "done" =>
          /\ ~ENABLED ChunkStep
          /\ \A i \in 1..Len(commits) : CountSteps("pack", commits[i]) = 1
          /\ SelectSeq(steps, LAMBDA e : e.op = "pack") =
                [i \in 1..Len(commits) |-> Step("pack", commits[i])]

C15_Terminates == []C15_StepBounds /\ [][StepsLeft' < StepsLeft]_vars

\* C15 witness: under a budget of 120 a commit with a long message and three
\* diff lines went through the message truncation, three removals and the
\* final truncation before it was packed, and the planner has ended.
C15_Witness ==
    /\ cpc = "done"
    /\ Len(commits) = 2
    /\ Len(commits[1].diffLines) = 3
    /\ Len(steps) >= 6
    /\ SubSeq(steps, 1, 6) =
          <<Step("message", commits[1]), Step("pop", commits[1]), Step("pop", commits[1]),
            Step("pop", commits[1]), Step("hard", commits[1]), Step("pack", commits[1])>>

-----------------------------------------------------------------------------
(* Properties of the truncation notices.                                   *)

\* The number of warnings logged that name the commit.
NoticesOf(commit) ==
    Cardinality({k \in 1..Len(warnings) :
                    warnings[k] = [kind |-> "truncated", sha |-> commit.sha]})

\* The number of reduction steps taken on the commit.
ReductionsOf(commit) ==
    CountSteps("message", commit) + CountSteps("pop", commit) + CountSteps("hard", commit)

\* chunkCommits is done with the commit at position i: truncateCommit, if
\* called, has returned.
Reduced(i) == i < ci \/ (i = ci /\ cpc = "pack")

\* C16 (as stated): every reduction step on a commit (message truncation,
\* removal of a diff line, final truncation) emits a notice naming the commit,
\* and a commit that needs no reduction emits none.
C16_NoticePerStep ==
    \A i \in 1..Len(commits) :
        Reduced(i) => NoticesOf(commits[i]) = ReductionsOf(commits[i])

\* C16 (amended): truncateCommit emits one notice naming the commit, after all
\* its reduction steps, for a commit whose block is over the budget, and none
\* for a commit that needs no reduction; every notice names an input commit,
\* and the planner ends with every commit packed whatever was logged.
C16_OneNoticePerReducedCommit ==
    /\ \A i \in 1..Len(commits) :
          /\ Reduced(i) =>
                NoticesOf(commits[i]) =
                    IF formatCommitBlock(commits[i]) > maxChars THEN 1 ELSE 0
          /\ ~Reduced(i) => NoticesOf(commits[i]) = 0
          /\ formatCommitBlock(commits[i]) <= maxChars => ReductionsOf(commits[i]) = 0
          /\ (Reduced(i) /\ formatCommitBlock(commits[i]) > maxChars) =>
                ReductionsOf(commits[i]) >= 1
    /\ \A k \in 1..Len(warnings) :
          \E i \in 1..Len(commits) :
              warnings[k] = [kind |-> "truncated", sha |-> commits[i].sha]
    /\ cpc = "done" => Len(Flatten(chunks)) = Len(commits)

\* C16 witness: a commit was reduced in four steps and one notice names it; the
\* other commit needed no reduction and has none; the planner has ended.
C16_Witness ==
    /\ cpc = "done"
    /\ Len(commits) = 2
    /\ ReductionsOf(commits[1]) = 4
    /\ NoticesOf(commits[1]) = 1
    /\ ReductionsOf(commits[2]) = 0
    /\ NoticesOf(commits[2]) = 0
    /\ Len(warnings) = 1

-----------------------------------------------------------------------------
(* Properties of the planner's input.                                      *)

\* While truncateCommit removes lines, the input record still has them all.
InputKeepsItsLines ==
    cpc = "trunc_pop" =>
        /\ ~trunc.shared
        /\ Len(commits[ci].diffLines) =
              Len(trunc.diffLines) + CountSteps("pop", commits[ci])

\* C17: no step of chunkCommits or truncateCommit changes the input array or
\* an input record (sha, message, diffLines), also for the commits that are
\* truncated: the removals act on a copy of the diff lines and the truncated
\* record is another record.
C17_InputNeverMutated == []InputKeepsItsLines /\ [][commits' = commits]_vars

\* C17 witness: the planner has ended; the first input record still has its
\* message of 2000 characters and its three diff lines, and the record packed
\* for it has a shorter message and no diff line after three removals.
C17_Witness ==
    /\ cpc = "done"
    /\ Len(commits) >= 1
    /\ commits[1].message = 2000
    /\ Len(commits[1].diffLines) = 3
    /\ CountSteps("pop", commits[1]) = 3
    /\ Flatten(chunks)[1].sha = commits[1].sha
    /\ Flatten(chunks)[1].message < 2000
    /\ Flatten(chunks)[1].diffLines = <<>>

-----------------------------------------------------------------------------
(* Properties of the sizes of the prompts run submits.                     *)

\* C18: every prompt submitted, the final merge prompt with the batch
\* summaries and the GitHub notes included, has length <= maxStageChars, and
\* staged mode is never entered with zero chunks.
C18_EveryPromptWithinBudget ==
    /\ \A j \in 1..Len(submissions) : submissions[j].prompt <= maxStageChars
    /\ (Staged /\ cpc = "done") => Len(chunks) > 0

\* What holds of C18: the prompt of the direct path is within maxStageChars.
C18_DirectPromptWithinBudget ==
    \A j \in 1..Len(submissions) :
        ~Staged => submissions[j].prompt <= maxStageChars

\* The failing input of C18: no commits, GitHub notes of 5000 characters and
\* maxStageChars = 1000; the run is staged with zero chunks, and its one
\* submission, the final merge prompt, holds the notes; the release is made.
C18_ZeroChunksOversizedMerge ==
    /\ commits = <<>>
    /\ githubNotes = 5000
    /\ maxStageChars = 1000
    /\ Staged
    /\ chunks = <<>>
    /\ Len(submissions) = 1
    /\ submissions[1].label = FinalLabel
    /\ submissions[1].prompt > 5000
    /\ Len(published) = 1

\* Another failing input of C18: two batch summaries of 900 characters make a
\* merge prompt over maxStageChars = 1000 without any GitHub notes.
C18_SummariesOversizedMerge ==
    /\ githubNotes = 0
    /\ maxStageChars = 1000
    /\ Len(submissions) = 3
    /\ submissions[3].label = FinalLabel
    /\ submissions[3].sections = <<900, 900>>
    /\ submissions[3].prompt > maxStageChars

====
